---- MODULE Spec2Model ----
(***************************************************************************)
(* Model of src/main.go: a coordinator goroutine                           *)
(* (concurrentDecompressMultipleFiles, called from main) that submits one  *)
(* closure per discovered .gz file to an ants worker pool, the closures    *)
(* (processGzFile plus the error accounting around it) running on worker   *)
(* goroutines, and the shared counter errCount.                            *)
(*                                                                         *)
(* The pool is the third-party library github.com/panjf2000/ants/v2.  Its  *)
(* behaviour at the three calls the program makes is modelled as follows:  *)
(*   NewPool(size, WithPreAlloc(true))  fails when size <= 0;              *)
(*   Submit(f)   blocks while all `size` workers are occupied, then hands  *)
(*               f to a worker goroutine and returns nil; its error return *)
(*               is an outcome the caller handles and is chosen freely;    *)
(*   Release()   marks the pool closed and returns at once; it does not    *)
(*               wait for tasks that are queued or running.                *)
(* When main returns the process ends and every goroutine ends with it.    *)
(* A file is abstracted to how processGzFile fares on it: whether it       *)
(* opens, whether its gzip header reads, how many JSON values decode and   *)
(* whether the stream then ends cleanly.                                   *)
(***************************************************************************)
EXTENDS Integers, Sequences, FiniteSets, TLC

\* Bounds of the model.
MaxFiles == 2
MaxWorkers == 2
MaxRecords == 2

VARIABLES
    files,       \* what the directory holds: one entry per .gz file
    walkErr,     \* whether filepath.Walk reports an error
    maxWorkers,  \* the maxWorkers argument
    pc,          \* position of the main goroutine
    idx,         \* index of the next file of the range loop
    task,        \* per file: state of its closure
    calls,       \* per file: number of invocations of processGzFile
    sink,        \* per file: the units handed to processCrossrefItem, in order
    handle,      \* per file: whether its os.File is open
    errCount,    \* the shared failure counter (uint32; at most one
                 \* increment per file, so it never wraps here)
    counted,     \* per file: number of atomic.AddUint32 calls made for it
    seen,        \* what the first atomic.LoadUint32(&errCount) read
    result,      \* what concurrentDecompressMultipleFiles returns
    pool,        \* "none", "open" or "closed"
    released,    \* number of pool.Release calls
    logs,        \* the final log lines main has written
    run,         \* which run of the program this is
    prev         \* the result of the previous run

vars == <<files, walkErr, maxWorkers, pc, idx, task, calls, sink, handle,
          errCount, counted, seen, result, pool, released, logs, run,
          prev>>

\* A file: how far processGzFile gets on it.  recs is the number of JSON
\* values the decoder yields before the stream ends ("ok": io.EOF) or
\* breaks ("decodeErr": any other error, including a truncated value); a
\* stream holds no value or MaxRecords of them.
FileKinds ==
    [kind : {"openErr", "gzErr"}, recs : {0}]
        \cup [kind : {"ok", "decodeErr"}, recs : {0, MaxRecords}]

FileLists == UNION {[1..n -> FileKinds] : n \in 0..MaxFiles}

Files == 1..Len(files)

NoResult == [kind |-> "none", n |-> 0]

NoPrev == [kind |-> "none", n |-> 0, rejected |-> 0]

\* States of a closure in which it occupies a worker of the pool.
Active == {"queued", "open", "gzip", "decode", "failed"}

Finished == {"ok", "err"}

Accepted == Active \cup Finished

Busy == Cardinality({f \in Files : task[f] \in Active})

\* The process is alive: goroutines can take steps.
Alive == pc # "exited"

Fresh(fs) ==
    /\ pc = "find"
    /\ idx = 1
    /\ task = [f \in 1..Len(fs) |-> "new"]
    /\ calls = [f \in 1..Len(fs) |-> 0]
    /\ sink = [f \in 1..Len(fs) |-> <<>>]
    /\ handle = [f \in 1..Len(fs) |-> FALSE]
    /\ errCount = 0
    /\ counted = [f \in 1..Len(fs) |-> 0]
    /\ seen = 0
    /\ result = NoResult
    /\ pool = "none"
    /\ released = 0
    /\ logs = {}

Init ==
    /\ files \in FileLists
    /\ walkErr \in BOOLEAN
    /\ maxWorkers \in 0..MaxWorkers
    /\ Fresh(files)
    /\ run = 1
    /\ prev = NoPrev

Input == <<files, walkErr, maxWorkers, run, prev>>

----------------------------------------------------------------------------
\* concurrentDecompressMultipleFiles

\* FindGzFiles with the error of the walk ignored.
FindGzFiles_IgnoreErr ==
    /\ pc = "find"
    /\ pc' = "newpool"
    /\ UNCHANGED <<Input, seen, idx, task, calls, sink, handle, errCount, counted,
                   result, pool, released, logs>>

\* files, err := findGzFiles(inputDir); if err != nil { return ... }
FindGzFiles ==
    /\ pc = "find"
    /\ IF walkErr
          THEN /\ result' = [kind |-> "findErr", n |-> 0]
               /\ pc' = "returned"
          ELSE /\ pc' = "newpool"
               /\ UNCHANGED result
    /\ UNCHANGED <<Input, seen, idx, task, calls, sink, handle, errCount, counted, pool,
                   released, logs>>

\* pool, err := ants.NewPool(maxWorkers, ants.WithPreAlloc(true)); defer pool.Release()
NewPool ==
    /\ pc = "newpool"
    /\ IF maxWorkers <= 0
          THEN /\ result' = [kind |-> "poolErr", n |-> 0]
               /\ pc' = "returned"
               /\ UNCHANGED pool
          ELSE /\ pool' = "open"
               /\ pc' = "loop"
               /\ UNCHANGED result
    /\ UNCHANGED <<Input, seen, idx, task, calls, sink, handle, errCount, counted, released,
                   logs>>

\* SubmitAccept on a pool that starts a goroutine per closure, whatever its
\* size.
SubmitAccept_Unbounded ==
    /\ pc = "loop"
    /\ idx <= Len(files)
    /\ pool = "open"
    /\ task' = [task EXCEPT ![idx] = "queued"]
    /\ idx' = idx + 1
    /\ UNCHANGED <<Input, seen, pc, calls, sink, handle, errCount, counted,
                   result, pool, released, logs>>

\* pool.Submit(func() {...}) returns nil: the closure is handed to a worker.
SubmitAccept ==
    /\ pc = "loop"
    /\ idx <= Len(files)
    /\ pool = "open"
    /\ Busy < maxWorkers
    /\ task' = [task EXCEPT ![idx] = "queued"]
    /\ idx' = idx + 1
    /\ UNCHANGED <<Input, seen, pc, calls, sink, handle, errCount, counted, result, pool,
                   released, logs>>

\* SubmitReject leaving the loop (a break, or a return, in the error branch).
SubmitReject_Abort ==
    /\ pc = "loop"
    /\ idx <= Len(files)
    /\ task' = [task EXCEPT ![idx] = "rejected"]
    /\ errCount' = errCount + 1
    /\ counted' = [counted EXCEPT ![idx] = @ + 1]
    /\ idx' = Len(files) + 1
    /\ UNCHANGED <<Input, seen, pc, calls, sink, handle, result, pool, released, logs>>

\* pool.Submit returns an error: log, atomic.AddUint32(&errCount, 1), next file.
SubmitReject ==
    /\ pc = "loop"
    /\ idx <= Len(files)
    /\ task' = [task EXCEPT ![idx] = "rejected"]
    /\ errCount' = errCount + 1
    /\ counted' = [counted EXCEPT ![idx] = @ + 1]
    /\ idx' = idx + 1
    /\ UNCHANGED <<Input, seen, pc, calls, sink, handle, result, pool, released, logs>>

\* Load1 with pool.Release() called on the error path only, not deferred.
Load1_ReleaseOnErrorOnly ==
    /\ pc = "loop"
    /\ idx > Len(files)
    /\ seen' = errCount
    /\ IF errCount > 0
          THEN /\ pc' = "load2"
               /\ UNCHANGED result
          ELSE /\ result' = [kind |-> "nil", n |-> 0]
               /\ pc' = "returned"
    /\ UNCHANGED <<Input, idx, task, calls, sink, handle, errCount, counted, pool,
                   released, logs>>

\* Load1 testing errCount >= 0.
Load1_TestNonNegative ==
    /\ pc = "loop"
    /\ idx > Len(files)
    /\ seen' = errCount
    /\ pc' = "load2"
    /\ UNCHANGED <<Input, idx, task, calls, sink, handle, errCount, counted,
                   result, pool, released, logs>>

\* The range loop is over; if atomic.LoadUint32(&errCount) > 0
Load1 ==
    /\ pc = "loop"
    /\ idx > Len(files)
    /\ seen' = errCount
    /\ IF errCount > 0
          THEN /\ pc' = "load2"
               /\ UNCHANGED result
          ELSE /\ result' = [kind |-> "nil", n |-> 0]
               /\ pc' = "release"
    /\ UNCHANGED <<Input, idx, task, calls, sink, handle, errCount, counted, pool,
                   released, logs>>

\* return fmt.Errorf("encountered %d errors ...", atomic.LoadUint32(&errCount))
Load2 ==
    /\ pc = "load2"
    /\ result' = [kind |-> "errs", n |-> errCount]
    /\ pc' = "release"
    /\ UNCHANGED <<Input, seen, idx, task, calls, sink, handle, errCount, counted, pool,
                   released, logs>>

\* The deferred pool.Release(), run after the return value is set.
Release ==
    /\ pc = "release"
    /\ pool' = "closed"
    /\ released' = released + 1
    /\ pc' = "returned"
    /\ UNCHANGED <<Input, seen, idx, task, calls, sink, handle, errCount, counted, result, logs>>

\* main, after the call: log the error and return, or log success and the time.
MainReport ==
    /\ pc = "returned"
    /\ logs' = IF result.kind # "nil" THEN {"error"} ELSE {"success", "time"}
    /\ pc' = "exited"
    /\ UNCHANGED <<Input, seen, idx, task, calls, sink, handle, errCount, counted, result, pool,
                   released>>

----------------------------------------------------------------------------
\* The closure submitted for file f, on a worker goroutine.

\* The worker takes the closure and calls processGzFile(task, logger).
StartTask(f) ==
    /\ Alive
    /\ task[f] = "queued"
    /\ task' = [task EXCEPT ![f] = "open"]
    /\ calls' = [calls EXCEPT ![f] = @ + 1]
    /\ UNCHANGED <<Input, seen, pc, idx, sink, handle, errCount, counted, result, pool,
                   released, logs>>

\* file, err := os.Open(filePath); defer file.Close()
OpenFile(f) ==
    /\ Alive
    /\ task[f] = "open"
    /\ IF files[f].kind = "openErr"
          THEN /\ task' = [task EXCEPT ![f] = "failed"]
               /\ UNCHANGED handle
          ELSE /\ task' = [task EXCEPT ![f] = "gzip"]
               /\ handle' = [handle EXCEPT ![f] = TRUE]
    /\ UNCHANGED <<Input, seen, pc, idx, calls, sink, errCount, counted, result, pool, released,
                   logs>>

\* NewReader returning on a header error with the file left open (no
\* deferred file.Close()).
NewReader_LeakOnError(f) ==
    /\ Alive
    /\ task[f] = "gzip"
    /\ task' = [task EXCEPT ![f] =
                   IF files[f].kind = "gzErr" THEN "failed" ELSE "decode"]
    /\ UNCHANGED <<Input, seen, pc, idx, calls, sink, handle, errCount, counted,
                   result, pool, released, logs>>

\* gr, err := gzip.NewReader(file); defer gr.Close()
NewReader(f) ==
    /\ Alive
    /\ task[f] = "gzip"
    /\ IF files[f].kind = "gzErr"
          THEN /\ task' = [task EXCEPT ![f] = "failed"]
               /\ handle' = [handle EXCEPT ![f] = FALSE]
          ELSE /\ task' = [task EXCEPT ![f] = "decode"]
               /\ UNCHANGED handle
    /\ UNCHANGED <<Input, seen, pc, idx, calls, sink, errCount, counted, result, pool, released,
                   logs>>

\* Decode calling the sink before it looks at the error of Decode.
Decode_SinkBeforeCheck(f) ==
    /\ Alive
    /\ task[f] = "decode"
    /\ sink' = [sink EXCEPT ![f] = Append(@, Len(@) + 1)]
    /\ IF Len(sink[f]) < files[f].recs
          THEN UNCHANGED <<task, handle>>
          ELSE /\ task' = [task EXCEPT ![f] =
                              IF files[f].kind = "ok" THEN "ok" ELSE "failed"]
               /\ handle' = [handle EXCEPT ![f] = FALSE]
    /\ UNCHANGED <<Input, seen, pc, idx, calls, errCount, counted, result, pool,
                   released, logs>>

\* Decode leaving the loop on any error, as it does on io.EOF.
Decode_BreakOnAnyError(f) ==
    /\ Alive
    /\ task[f] = "decode"
    /\ IF Len(sink[f]) < files[f].recs
          THEN /\ sink' = [sink EXCEPT ![f] = Append(@, Len(@) + 1)]
               /\ UNCHANGED <<task, handle>>
          ELSE /\ task' = [task EXCEPT ![f] = "ok"]
               /\ handle' = [handle EXCEPT ![f] = FALSE]
               /\ UNCHANGED sink
    /\ UNCHANGED <<Input, seen, pc, idx, calls, errCount, counted, result, pool,
                   released, logs>>

\* One iteration of the for loop: decoder.Decode(&item), then the sink, or
\* io.EOF (return nil), or another error (return it).
Decode(f) ==
    /\ Alive
    /\ task[f] = "decode"
    /\ IF Len(sink[f]) < files[f].recs
          THEN /\ sink' = [sink EXCEPT ![f] = Append(@, Len(@) + 1)]
               /\ UNCHANGED <<task, handle>>
          ELSE /\ task' = [task EXCEPT ![f] =
                              IF files[f].kind = "ok" THEN "ok" ELSE "failed"]
               /\ handle' = [handle EXCEPT ![f] = FALSE]
               /\ UNCHANGED sink
    /\ UNCHANGED <<Input, seen, pc, idx, calls, errCount, counted, result, pool, released, logs>>

\* CountError with a plain errCount++ in place of the atomic add: the write
\* may be based on a stale read.
CountError_Unsynchronized(f) ==
    /\ Alive
    /\ task[f] = "failed"
    /\ \E stale \in 0..errCount : errCount' = stale + 1
    /\ counted' = [counted EXCEPT ![f] = @ + 1]
    /\ task' = [task EXCEPT ![f] = "err"]
    /\ UNCHANGED <<Input, seen, pc, idx, calls, sink, handle, result, pool,
                   released, logs>>

\* CountError counting the failure twice (once more on the way out).
CountError_Twice(f) ==
    /\ Alive
    /\ task[f] = "failed"
    /\ errCount' = errCount + 2
    /\ counted' = [counted EXCEPT ![f] = @ + 2]
    /\ task' = [task EXCEPT ![f] = "err"]
    /\ UNCHANGED <<Input, seen, pc, idx, calls, sink, handle, result, pool, released,
                   logs>>

\* processGzFile returned an error: log it, atomic.AddUint32(&errCount, 1).
CountError(f) ==
    /\ Alive
    /\ task[f] = "failed"
    /\ errCount' = errCount + 1
    /\ counted' = [counted EXCEPT ![f] = @ + 1]
    /\ task' = [task EXCEPT ![f] = "err"]
    /\ UNCHANGED <<Input, seen, pc, idx, calls, sink, handle, result, pool, released,
                   logs>>

Worker(f) ==
    IF f \in Files
       THEN \/ StartTask(f)
            \/ OpenFile(f)
            \/ NewReader(f)
            \/ Decode(f)
            \/ CountError(f)
       ELSE FALSE

Coordinator ==
    \/ FindGzFiles
    \/ NewPool
    \/ SubmitAccept
    \/ SubmitReject
    \/ Load1
    \/ Load2
    \/ Release
    \/ MainReport

\* The program is started again on the same directory with the same
\* maxWorkers: a new process, with nothing kept but the files.
Rerun ==
    /\ pc = "exited"
    /\ run = 1
    /\ run' = 2
    /\ prev' = [kind |-> result.kind, n |-> result.n,
                rejected |-> Cardinality({f \in Files : task[f] = "rejected"})]
    /\ pc' = "find"
    /\ idx' = 1
    /\ task' = [f \in Files |-> "new"]
    /\ calls' = [f \in Files |-> 0]
    /\ sink' = [f \in Files |-> <<>>]
    /\ handle' = [f \in Files |-> FALSE]
    /\ errCount' = 0
    /\ counted' = [f \in Files |-> 0]
    /\ seen' = 0
    /\ result' = NoResult
    /\ pool' = "none"
    /\ released' = 0
    /\ logs' = {}
    /\ UNCHANGED <<files, walkErr, maxWorkers>>

Workers ==
    \/ \E f \in Files : StartTask(f)
    \/ \E f \in Files : OpenFile(f)
    \/ \E f \in Files : NewReader(f)
    \/ \E f \in Files : Decode(f)
    \/ \E f \in Files : CountError(f)

Next ==
    \/ Coordinator
    \/ Workers

NextTwice ==
    \/ Next
    \/ Rerun

\* One run of the program.
Spec == Init /\ [][Next]_vars

\* Two runs of the program, one after the other, on the same input.
SpecTwice == Init /\ [][NextTwice]_vars

\* The steps of the main goroutine when no submission is rejected.
MainGoroutine ==
    \/ FindGzFiles
    \/ NewPool
    \/ SubmitAccept
    \/ Load1
    \/ Load2
    \/ Release
    \/ MainReport

NextLive ==
    \/ MainGoroutine
    \/ Workers

\* The Go scheduler's fairness: the main goroutine and every runnable worker
\* goroutine eventually take their next step.
Fairness ==
    /\ WF_vars(MainGoroutine)
    /\ \A f \in 1..MaxFiles : WF_vars(Worker(f))

\* One run in which Submit never returns an error, under that fairness.
LiveSpec == Init /\ [][NextLive]_vars /\ Fairness

----------------------------------------------------------------------------
\* Vocabulary of the properties.

\* concurrentDecompressMultipleFiles has returned to main.
Returned == pc \in {"returned", "exited"}

\* It got past discovery and pool creation and returned nil or the aggregate.
RanBatch == Returned /\ result.kind \in {"nil", "errs"}

\* The failure count the caller is told: nil is 0, else the number in the error.
ReportedOf(r) == IF r.kind = "errs" THEN r.n ELSE 0

Reported == ReportedOf(result)

\* The files processGzFile fails on.
Failing == {f \in Files : files[f].kind # "ok"}

Rejected == {f \in Files : task[f] = "rejected"}

\* File f exists and its submission was accepted; its closure has returned.
IsAccepted(f) == IF f \in Files THEN task[f] \in Accepted ELSE FALSE

IsFinished(f) == IF f \in Files THEN task[f] \in Finished ELSE FALSE

\* The files whose closure is inside processGzFile.
Executing == {f \in Files : task[f] \in {"open", "gzip", "decode"}}

\* The files whose os.File is open.
OpenHandles == {f \in Files : handle[f]}

\* The records file f's decoder yields before it stops, in source order.
Units(f) == [k \in 1..files[f].recs |-> k]

----------------------------------------------------------------------------
\* C1: with no submission rejected, the failure count reported to the caller
\* (0 for nil, else the number in the error) equals the number of failing
\* files, for every pool size and every interleaving.
C1_ReportedEqualsFailing ==
    (RanBatch /\ Rejected = {}) => Reported = Cardinality(Failing)

\* C2: the run returns nil only if every discovered file's task has completed
\* without error and no submission was rejected.
C2_NilOnlyIfAllSucceeded ==
    (Returned /\ result.kind = "nil") => \A f \in Files : task[f] = "ok"

\* C3: when concurrentDecompressMultipleFiles returns, no accepted task is
\* still running or not yet started.
C3_NoTaskPendingAtReturn ==
    Returned => \A f \in Files : task[f] \notin Active

\* C4: every accepted task is executed exactly once: processGzFile is never
\* invoked twice for a task, and when the program ends no accepted task has
\* been left unexecuted.
C4_ExecutedExactlyOnce ==
    \A f \in Files :
        /\ calls[f] <= 1
        /\ (pc = "exited" /\ task[f] \in Accepted) => calls[f] = 1

\* C5: the failure counter never exceeds the number of files whose submission
\* has been attempted so far, and each file adds at most 1 to it, and nothing
\* before its own submission.
C5_FailedAtMostSubmitted ==
    /\ errCount <= idx - 1
    /\ \A f \in Files :
          /\ counted[f] <= 1
          /\ f >= idx => counted[f] = 0

\* Both files of a two-file batch have failed and both have been counted.
C5_Witness ==
    /\ Len(files) = 2
    /\ errCount = 2
    /\ task[1] = "err"
    /\ task[2] = "rejected"

\* C6: when one file's task has failed, every other accepted task is still
\* executed to completion, delivers all of its records to the sink and
\* reports the outcome its own file determines.
C6_SiblingsRunToCompletion ==
    pc = "exited" =>
        \A f, g \in Files :
            (f # g /\ task[f] = "err" /\ task[g] \in Accepted) =>
                /\ task[g] \in Finished
                /\ sink[g] = Units(g)
                /\ (task[g] = "ok") <=> (files[g].kind = "ok")

\* C7: a rejected submission adds exactly 1 to the counter for that file, its
\* task never runs, and the loop goes on: once the loop is over every file
\* has been submitted.
C7_RejectCountedAndSkipped ==
    /\ errCount >= Cardinality(Rejected)
    /\ \A f \in Rejected :
          /\ counted[f] = 1
          /\ calls[f] = 0
          /\ sink[f] = <<>>
          /\ ~handle[f]
    /\ (Rejected # {} /\ pc # "loop") => \A g \in Files : task[g] # "new"

\* The first file was rejected, the second was still submitted and ran to its
\* end, and the run reported exactly the one failure.
C7_Witness ==
    /\ Len(files) = 2
    /\ task[1] = "rejected"
    /\ task[2] = "ok"
    /\ sink[2] = Units(2)
    /\ files[2].recs = MaxRecords
    /\ result = [kind |-> "errs", n |-> 1]
    /\ pc = "exited"

\* C8: when discovery fails the function returns the discovery error before
\* the pool is created: nothing is submitted or run, the sink gets no call
\* and the counter stays untouched.
C8_DiscoveryFailureAborts ==
    (walkErr /\ pc # "find") =>
        /\ Returned
        /\ result.kind = "findErr"
        /\ pool = "none"
        /\ released = 0
        /\ idx = 1
        /\ errCount = 0
        /\ \A f \in Files :
              /\ task[f] = "new"
              /\ calls[f] = 0
              /\ counted[f] = 0
              /\ sink[f] = <<>>

\* The walk failed after it had found two files, and the program has ended.
C8_Witness ==
    /\ walkErr
    /\ Len(files) = 2
    /\ maxWorkers > 0
    /\ pc = "exited"
    /\ logs = {"error"}

\* C9: with more files than workers, under fair scheduling, the submission
\* loop finishes, the coordinator returns, and every accepted task
\* eventually completes.
C9_NoDeadlockAllComplete ==
    (~walkErr /\ maxWorkers >= 1 /\ Len(files) > maxWorkers) =>
        /\ <>(pc \notin {"find", "newpool", "loop"})
        /\ <>Returned
        /\ \A f \in 1..MaxFiles : [](IsAccepted(f) => <>IsFinished(f))

\* C10: two runs on the same input, neither with a rejected submission,
\* report the same failure count.
C10_SameCountBothRuns ==
    (run = 2 /\ RanBatch /\ prev.kind \in {"nil", "errs"}
        /\ prev.rejected = 0 /\ Rejected = {})
        => Reported = ReportedOf(prev)

\* C11: when the program ends, whatever the result of
\* concurrentDecompressMultipleFiles, main has logged the elapsed time along
\* with the success message or the error.
C11_ElapsedTimeAlwaysLogged ==
    pc = "exited" =>
        /\ "time" \in logs
        /\ ("success" \in logs) \/ ("error" \in logs)

\* C12: the loads of errCount that decide the result happen after the pool
\* has been shut down and after every accepted task has finished, its
\* increment applied.
C12_LoadAfterAllTasks ==
    (pc \in {"load2", "release"} /\ \E f \in Files : task[f] \in Accepted) =>
        /\ pool = "closed"
        /\ \A f \in Files : task[f] \notin Active

\* C13: no increment is lost: whenever no accepted task is still pending,
\* errCount is the number of tasks whose processGzFile returned an error
\* plus the number of rejected submissions.
C13_NoLostIncrement ==
    (\A f \in Files : task[f] \notin Active) =>
        errCount = Cardinality({f \in Files : task[f] = "err"})
                     + Cardinality(Rejected)

\* Two closures failed and both increments are in the counter.
C13_Witness ==
    /\ Len(files) = 2
    /\ maxWorkers = 2
    /\ task[1] = "err"
    /\ task[2] = "err"
    /\ errCount = 2

\* C14: at every point the number of tasks inside processGzFile is at most
\* the pool capacity maxWorkers, however many files were discovered.
C14_ExecutingAtMostCapacity ==
    Cardinality(Executing) <= maxWorkers

\* One worker, two files: the first is being decoded and the second has not
\* been handed to the pool.
C14_Witness ==
    /\ maxWorkers = 1
    /\ Len(files) = 2
    /\ task[1] = "decode"
    /\ task[2] = "new"
    /\ pc = "loop"

\* C15: for a valid file of K units the sink is called exactly K times, in
\* source order, one call at a time, and the file then succeeds and is not
\* counted; with K = 0 there is no sink call and the file succeeds as well.
C15_ValidFileDeliversAll ==
    \A f \in Files :
        /\ sink[f] = [k \in 1..Len(sink[f]) |-> k]
        /\ Len(sink[f]) <= files[f].recs
        /\ files[f].kind = "ok" =>
              /\ task[f] \notin {"failed", "err"}
              /\ task[f] # "rejected" => counted[f] = 0
              /\ task[f] = "ok" => sink[f] = Units(f)

\* A file of MaxRecords units and an empty one have both been processed.
C15_Witness ==
    /\ Len(files) = 2
    /\ files[1] = [kind |-> "ok", recs |-> MaxRecords]
    /\ files[2] = [kind |-> "ok", recs |-> 0]
    /\ task[1] = "ok"
    /\ task[2] = "ok"
    /\ Len(sink[1]) = MaxRecords
    /\ sink[2] = <<>>

\* C16: a file that fails to open, fails at its gzip header or breaks in
\* decoding never counts as a success: processGzFile stops there with no
\* further sink call, and once its closure has returned the file has added
\* exactly 1 to the counter; open and header failures come before any sink
\* call.
C16_NoPartialSuccess ==
    \A f \in Files :
        files[f].kind # "ok" =>
            /\ task[f] # "ok"
            /\ counted[f] <= 1
            /\ task[f] = "err" => counted[f] = 1
            /\ task[f] = "failed" => counted[f] = 0
            /\ task[f] \in {"failed", "err"} => sink[f] = Units(f) /\ ~handle[f]
            /\ files[f].kind \in {"openErr", "gzErr"} => sink[f] = <<>>

\* A stream that breaks after MaxRecords units: those were delivered, the
\* file failed and was counted once; a header failure next to it.
C16_Witness ==
    /\ Len(files) = 2
    /\ files[1] = [kind |-> "decodeErr", recs |-> MaxRecords]
    /\ files[2].kind = "gzErr"
    /\ task[1] = "err"
    /\ task[2] = "err"
    /\ Len(sink[1]) = MaxRecords
    /\ errCount = 2

\* C17: Submit never makes the coordinator wait for a worker: whenever the
\* loop has a file to submit, the submission can be issued at once, even
\* with every worker busy.
C17_SubmitNeverWaits ==
    (pc = "loop" /\ idx <= Len(files)) => ENABLED SubmitAccept

\* C18: a pool that was created is released exactly once before the
\* function returns, and on the discovery-failure and pool-creation-failure
\* paths there is no pool at return.
C18_PoolReleasedOnEveryPath ==
    /\ released <= 1
    /\ released = 1 <=> pool = "closed"
    /\ Returned =>
          \/ result.kind \in {"findErr", "poolErr"} /\ pool = "none"
          \/ result.kind \in {"nil", "errs"} /\ pool = "closed"

\* The program has ended with the aggregate error and the pool released
\* once, while a closure was still pending.
C18_Witness ==
    /\ pc = "exited"
    /\ result.kind = "errs"
    /\ pool = "closed"
    /\ released = 1
    /\ \E f \in Files : task[f] \in Active

\* C19: a file handle is open only while its own task is inside
\* processGzFile past a successful open; so the open handles never
\* outnumber the executing tasks and none is open once no task is pending.
C19_HandlesClosedOnEveryPath ==
    /\ \A f \in Files : handle[f] => task[f] \in {"gzip", "decode"}
    /\ \A f \in Files : files[f].kind = "openErr" => ~handle[f]
    /\ Cardinality(OpenHandles) <= Cardinality(Executing)
    /\ (\A f \in Files : task[f] \notin Active) => OpenHandles = {}

\* A header failure and a decode failure have closed their handles while a
\* valid file is still being read.
C19_Witness ==
    /\ Len(files) = 2
    /\ files[1].kind = "gzErr"
    /\ task[1] = "err"
    /\ ~handle[1]
    /\ files[2].kind = "ok"
    /\ task[2] = "decode"
    /\ handle[2]

\* C20: the count in the aggregate error is at least 1 and at most the
\* number of discovered files, also when tasks add to the counter between
\* the two loads; the counter never decreases.
C20_AggregateCountInRange ==
    /\ [](result.kind = "errs" =>
             /\ result.n >= 1
             /\ result.n >= seen
             /\ result.n <= Len(files))
    /\ [][errCount' >= errCount]_vars

\* The second load read more than the first: a task failed in between.
C20_Witness ==
    /\ result.kind = "errs"
    /\ seen = 1
    /\ result.n = 2

====
